---- MODULE Spec2Model ----
(***************************************************************************)
(* TidyFlow verification clients.                                          *)
(*                                                                         *)
(*   scripts/term-multi-smoke.py : TerminalTester and its main()           *)
(*   scripts/verify_protocol.py  : ProtocolTester, run_all_tests(), main() *)
(*                                                                         *)
(* Both are single asyncio coroutines talking to one websocket.  A step of *)
(* the model is the code between two awaits of the coroutine, or a step of *)
(* the environment (the server puts a frame on the socket, time passes,    *)
(* the connection breaks).                                                 *)
(*                                                                         *)
(* Time is the event loop's clock in ticks of 0.1 s, read relative to the  *)
(* start of the current scenario step (the code only reads differences).   *)
(***************************************************************************)
EXTENDS Integers, Sequences, FiniteSets, TLC

VARIABLES
    prog,        \* which program runs: "smoke" (main), "api" (TerminalTester driven call by call), "proto"
    pc,          \* position of the coroutine
    retpc,       \* where the running TerminalTester method returns to
    rv,          \* return value of the last finished method
    arg,         \* argument of the running method (a term_id)
    ws,          \* self.ws : "none" | "open" | "closed"
    conn,        \* the transport: "down" | "up" | "lost"
    wire,        \* frames the server has sent and the client has not read yet
    now,         \* loop.time()
    deadline,    \* deadline of the running receive
    ru,          \* activation record of recv_until
    term_ids,    \* self.term_ids
    outputs,     \* self.outputs
    project,     \* self.project
    workspace,   \* self.workspace
    term1,       \* main: term1
    term2,       \* main: term2
    i,           \* loop counter of the running for loop
    isolation_ok,\* main: isolation_ok ("unset" until computed)
    exc,         \* the exception raised, "none" if none
    exitcode,    \* process exit status, -1 while running
    closeCalls,  \* number of ws.close() calls
    sent,        \* kinds of messages sent so far
    nOut,        \* number of output frames the server has sent
    default_id,  \* session assigned by the latest hello / selected_workspace the client accepted
    nOps,        \* "api": number of methods called so far
    closed,      \* term_ids for which close_terminal returned True
    passed,      \* run_all_tests: passed
    failed,      \* run_all_tests: failed
    protocol_version, \* self.protocol_version
    session_id,  \* self.session_id
    ti,          \* index of the running test in tests
    cwd_isdir,   \* os.path.isdir(test_cwd)
    output,      \* test_cwd_verification: output
    steps,       \* the steps run so far and how each ended
    stdout,      \* the tagged lines printed so far
    wdeadline    \* wait_for_output: deadline

vars == <<prog, pc, retpc, rv, arg, ws, conn, wire, now, deadline, ru, term_ids, outputs,
          project, workspace, term1, term2, i, isolation_ok, exc, exitcode, closeCalls,
          sent, nOut, default_id, nOps, closed, passed, failed, protocol_version,
          session_id, ti, cwd_isdir, output, steps, stdout, wdeadline>>

----------------------------------------------------------------------------
(* Bounds of the model *)

MaxOutputs == 2     \* output frames the server sends in one run
MaxOps == 2         \* "api": methods called after connect
MaxPending == 21    \* output frames waiting on the socket when the drain starts

(* Program constants, in ticks of 0.1 s *)

TIMEOUT == 100      \* TIMEOUT = 10
DRAIN_TIMEOUT == 2  \* recv_until("output", timeout=0.2)
DRAIN_ITERS == 20   \* for _ in range(20)

RECV_TIMEOUT == 50  \* recv_message(timeout: float = 5.0)
PONG_TIMEOUT == 20  \* recv_message(timeout=2.0)
IO_TIMEOUT == 10    \* recv_message(timeout=1.0)
SPAWN_TIMEOUT == 5  \* recv_message(timeout=0.5)
IO_ITERS == 10      \* for _ in range(10)
SPAWN_ITERS == 5    \* for _ in range(5)

WAIT_TIMEOUT == 50  \* wait_for_output(term_id, expected, timeout=5)
WAIT_INNER == 5     \* recv_until("output", term_id, timeout=0.5)

----------------------------------------------------------------------------
(* Data *)

NoId == "none"                      \* a missing term_id / session_id (None)
IDs == {"s0", "s1", "s2"}           \* session ids the server hands out

\* Bytes of terminal output.  "M" stands for the common prefix "MARKER_",
\* "xFF" for a byte that is not valid UTF-8.
Bytes == {"M", "A", "B", "xFF"}
REPLACEMENT == "uFFFD"
MARKER_A == <<"M", "A">>
MARKER_B == <<"M", "B">>

b64encode(bytes) == <<"b64", bytes>>
b64decode(t) == t[2]
Utf8DecodeReplace(bytes) ==
    [k \in 1..Len(bytes) |-> IF bytes[k] = "xFF" THEN REPLACEMENT ELSE bytes[k]]

\* data = base64.b64decode(parsed["data_b64"]).decode("utf-8", errors="replace")
DecodeData(f) == Utf8DecodeReplace(b64decode(f.data_b64))

\* Python's  needle in hay  on strings
Contains(hay, needle) ==
    \E k \in 0..(Len(hay) - Len(needle)) :
        \A j \in 1..Len(needle) : hay[k + j] = needle[j]

IsPrefix(p, s) == Len(p) <= Len(s) /\ \A k \in 1..Len(p) : s[k] = p[k]

Range(s) == {s[k] : k \in 1..Len(s)}

\* list.remove(x): drops the first occurrence
RemoveFirst(s, x) ==
    LET k == CHOOSE k \in 1..Len(s) : s[k] = x /\ \A j \in 1..(k - 1) : s[j] # x
    IN  SubSeq(s, 1, k - 1) \o SubSeq(s, k + 1, Len(s))

----------------------------------------------------------------------------
(* Frames: the parsed JSON objects.  A field the message does not carry is *)
(* NoId (what dict.get returns, None), an empty list or 0.                 *)

Frame(t, sid, tid, d, it, v) ==
    [type |-> t, session_id |-> sid, term_id |-> tid, data_b64 |-> d,
     items |-> it, version |-> v]

NoData == b64encode(<<>>)

None == Frame("None", NoId, NoId, NoData, <<>>, 0)

\* What the shells echo: the first marker, and the second one after a byte that
\* is not valid UTF-8.
Payloads == {MARKER_A, <<"xFF">> \o MARKER_B}

OutputFrames ==
    {Frame("output", NoId, tid, b64encode(p), <<>>, 0) : tid \in IDs \cup {NoId}, p \in Payloads}

SmokeFrames ==
    {Frame("hello", "s0", NoId, NoData, <<>>, 1)}
    \cup {Frame("projects", NoId, NoId, NoData, it, 0) : it \in {<<>>, <<"p">>}}
    \cup {Frame("workspaces", NoId, NoId, NoData, it, 0) : it \in {<<>>, <<"w">>}}
    \cup {Frame("selected_workspace", sid, NoId, NoData, <<>>, 0) : sid \in {"s0", "s1"}}
    \cup {Frame("term_created", NoId, tid, NoData, <<>>, 0) : tid \in {"s1", "s2"}}
    \cup {Frame("term_closed", NoId, tid, NoData, <<>>, 0) : tid \in IDs}
    \cup {Frame("error", NoId, NoId, NoData, <<>>, 0)}
    \cup OutputFrames

\* Frames sent to a TerminalTester that is driven method by method: the replies
\* its methods wait for, and frames none of them waits for
ApiFrames ==
    {Frame("hello", "s0", NoId, NoData, <<>>, 1)}
    \cup {Frame("term_created", NoId, "s1", NoData, <<>>, 0)}
    \cup {Frame("term_closed", NoId, tid, NoData, <<>>, 0) : tid \in {"s0", "s1"}}
    \cup {Frame("error", NoId, NoId, NoData, <<>>, 0)}
    \cup {Frame("output", NoId, tid, b64encode(MARKER_A), <<>>, 0) : tid \in {NoId, "s0", "s1"}}

\* What a shell prints for pwd: the expected cwd and a newline; or something else
EXPECTED_CWD == <<"C">>
NEWLINE == <<"NL">>
ProtoPayloads == {EXPECTED_CWD \o NEWLINE, <<"x">>}

ProtoFrames ==
    {Frame("hello", "s0", NoId, NoData, <<>>, v) : v \in {0, 1}}
    \cup {Frame(t, NoId, NoId, NoData, <<>>, 0) : t \in {"pong", "projects", "error", "terminal_spawned"}}
    \cup {Frame("output", NoId, NoId, b64encode(p), <<>>, 0) : p \in ProtoPayloads}

----------------------------------------------------------------------------
(* recv_until's activation record *)

RuIdle == [st |-> "idle", msg_type |-> "", term_id |-> NoId, start |-> 0,
           timeout |-> 0, result |-> None]

RuCall(t, tid, tmo, at) ==
    [st |-> "run", msg_type |-> t, term_id |-> tid, start |-> at,
     timeout |-> tmo, result |-> None]

RuReturn(r, m) == [r EXCEPT !.st = "ret", !.result = m]

\* d[k] = v on a dict
DictSet(d, k, v) == [x \in (DOMAIN d) \cup {k} |-> IF x = k THEN v ELSE d[x]]

EmptyDict == [x \in {} |-> <<>>]

----------------------------------------------------------------------------
(* Groups of variables, for UNCHANGED *)

registry == <<term_ids, outputs, default_id>>
mainVars == <<project, workspace, term1, term2, i, isolation_ok>>
callVars == <<retpc, rv, arg>>
clock    == <<now, deadline>>
endVars  == <<exitcode, closeCalls, ws>>
envVars  == <<conn, wire, nOut>>
drv      == <<nOps, closed>>
protoRest == <<passed, failed, protocol_version, session_id, ti, cwd_isdir, output>>
protoVars == <<protoRest, steps>>
smokeVars == <<callVars, ru, registry, project, workspace, term1, term2, isolation_ok, drv>>

----------------------------------------------------------------------------
(* Exceptions.  main() catches every Exception (line 259); a method driven *)
(* directly has no handler around it.                                      *)

Raise(e) ==
    /\ exc' = e
    /\ pc' = IF prog = "smoke" THEN "m_except" ELSE "crashed"
    /\ ru' = RuIdle

\* await self.ws.send(...): raises ConnectionClosed on a broken transport
CanSend == conn = "up"

----------------------------------------------------------------------------
(* The environment *)

Running == pc \notin {"done", "crashed"}

\* A receive is blocked on ws.recv()
RecvLabels == {"c_hello", "p_hello", "p_pong", "p_io", "p_projects", "p_spawn", "p_cwd"}
Receiving == (ru.st = "run" /\ now < deadline) \/ pc \in RecvLabels

\* The coroutine is suspended in asyncio.sleep, or between two calls of the driver
Sleeping == pc \in {"m_clear1", "m_inputB", "p_next", "api_idle"}

\* The server's next frame reaches the client.  Frames are delivered one at a
\* time, while the client is suspended: the client cannot tell a frame that waited
\* in the socket from one that arrives when it reads.
ServerSend ==
    /\ Receiving \/ Sleeping
    /\ conn = "up" /\ wire = <<>>
    /\ \E f \in (CASE prog = "proto" -> ProtoFrames
                    [] prog = "api" -> ApiFrames
                    [] OTHER -> SmokeFrames) :
        /\ f.type = "output" => nOut < MaxOutputs
        /\ wire' = Append(wire, f)
        /\ nOut' = IF f.type = "output" THEN nOut + 1 ELSE nOut
    /\ UNCHANGED <<prog, wdeadline, stdout, protoVars, pc, callVars, ws, conn, clock, ru, registry, mainVars, exc,
                   exitcode, closeCalls, sent, drv>>

\* The transport breaks.
ConnLost ==
    /\ Running /\ conn = "up"
    /\ conn' = "lost"
    /\ UNCHANGED <<prog, wdeadline, stdout, protoVars, pc, callVars, ws, wire, nOut, clock, ru, registry, mainVars, exc,
                   exitcode, closeCalls, sent, drv>>

\* Instants before deadline d at which the next frame may arrive
Instants(d) == {1, d \div 2, d - 1}

\* Time passes while a receive is blocked on an empty socket.
Elapse ==
    /\ Receiving /\ wire = <<>> /\ conn = "up"
    /\ \E t \in Instants(deadline) : now < t /\ t < deadline /\ now' = t
    /\ UNCHANGED <<prog, wdeadline, stdout, protoVars, pc, callVars, envVars, deadline, ru, registry, mainVars, exc,
                   endVars, sent, drv>>

----------------------------------------------------------------------------
(* TerminalTester.recv_until *)

\* Mutant: a frame without term_id goes to the newest terminal
AccumulateTarget_Newest(f, tids) == IF f.term_id # NoId THEN f.term_id ELSE tids[Len(tids)]

\* tid = parsed.get("term_id") or self.term_ids[0]
AccumulateTarget(f, tids) == IF f.term_id # NoId THEN f.term_id ELSE tids[1]

\* Mutant: the buffer is overwritten instead of extended
Accumulate_Overwrite(outs, tids, f) ==
    LET tid == AccumulateTarget(f, tids) IN
    IF tid \in DOMAIN outs
    THEN [outs EXCEPT ![tid] = DecodeData(f)]
    ELSE outs

\* lines 62-66
Accumulate(outs, tids, f) ==
    LET tid == AccumulateTarget(f, tids) IN
    IF tid \in DOMAIN outs
    THEN [outs EXCEPT ![tid] = @ \o DecodeData(f)]
    ELSE outs

\* Mutant: the session filter is ignored
Matches_KindOnly(f, msg_type, term_id) == f.type = msg_type

\* lines 68-69
Matches(f, msg_type, term_id) ==
    /\ f.type = msg_type
    /\ (term_id = NoId \/ f.term_id = term_id)

\* deadline = loop.time() + timeout
Deadline(at, timeout) == at + timeout

\* Mutant: every ws.recv() gets the whole duration again
Remaining_Fresh(dl, t) == dl

\* timeout=deadline - loop.time(): what one ws.recv() may take
Remaining(dl, t) == dl - t

\* Mutant: the loop is left only once the deadline is behind
Expired_Strict(t, dl) == t > dl

\* not (loop.time() < deadline): the budget is used up
Expired(t, dl) == t >= dl

\* The clock after a frame was handled: the tick that ends the budget may pass
\* meanwhile.
ClockAfterFrame(t, dl) == IF t + 1 = dl THEN {t, dl} ELSE {t}

\* while loop.time() < deadline: false on entry or after a frame
recv_until_expired ==
    /\ ru.st = "run" /\ Expired(now, deadline)
    /\ ru' = RuReturn(ru, None)
    /\ UNCHANGED <<prog, wdeadline, stdout, protoVars, pc, callVars, envVars, clock, registry, mainVars, exc, endVars,
                   sent, drv>>

\* ws.recv() returns a frame within the remaining time
recv_until_frame ==
    /\ ru.st = "run" /\ ~Expired(now, deadline) /\ wire # <<>>
    /\ now' \in ClockAfterFrame(now, deadline)
    /\ LET f == Head(wire) IN
        /\ wire' = Tail(wire)
        /\ IF f.type = "output" /\ f.term_id = NoId /\ term_ids = <<>>
           THEN /\ Raise("IndexError")
                /\ UNCHANGED outputs
           ELSE /\ outputs' = IF f.type = "output"
                              THEN Accumulate(outputs, term_ids, f) ELSE outputs
                /\ ru' = IF Matches(f, ru.msg_type, ru.term_id)
                         THEN RuReturn(ru, f) ELSE ru
                /\ UNCHANGED <<pc, exc>>
    /\ UNCHANGED <<prog, wdeadline, stdout, protoVars, callVars, conn, nOut, deadline, term_ids, default_id,
                   mainVars, endVars, sent, drv>>

\* asyncio.TimeoutError after the remaining time: break, return None
recv_until_timeout ==
    /\ ru.st = "run" /\ ~Expired(now, deadline) /\ wire = <<>> /\ conn = "up"
    /\ now' = now + Remaining(deadline, now)
    /\ ru' = RuReturn(ru, None)
    /\ UNCHANGED <<prog, wdeadline, stdout, protoVars, pc, callVars, envVars, deadline, registry, mainVars, exc, endVars,
                   sent, drv>>

\* ws.recv() raises ConnectionClosed: not caught by recv_until
recv_until_closed ==
    /\ ru.st = "run" /\ ~Expired(now, deadline) /\ wire = <<>> /\ conn = "lost"
    /\ Raise("ConnectionClosed")
    /\ UNCHANGED <<prog, wdeadline, stdout, protoVars, callVars, envVars, clock, registry, mainVars, endVars, sent, drv>>

recv_until ==
    \/ recv_until_expired
    \/ recv_until_frame
    \/ recv_until_timeout
    \/ recv_until_closed

----------------------------------------------------------------------------
(* TerminalTester.connect, lines 30-41 *)

\* self.ws = await asyncio.wait_for(websockets.connect(WS_URL), timeout=TIMEOUT)
connect_open ==
    /\ pc = "c_open"
    /\ \/ /\ ws' = "open" /\ conn' = "up"
          /\ now' = 0 /\ deadline' = Deadline(0, TIMEOUT)
          /\ pc' = "c_hello"
          /\ UNCHANGED <<exc, ru>>
       \/ /\ Raise("ConnectError")
          /\ UNCHANGED <<ws, conn, clock>>
    /\ UNCHANGED <<prog, wdeadline, stdout, protoVars, callVars, wire, nOut, registry, mainVars, exitcode, closeCalls,
                   sent, drv>>

\* msg = await self.recv(); assert msg["type"] == "hello"; register the default terminal
connect_hello ==
    /\ pc = "c_hello" /\ wire # <<>>
    /\ LET msg == Head(wire) IN
        /\ wire' = Tail(wire)
        /\ IF msg.type = "hello"
           THEN /\ term_ids' = Append(term_ids, msg.session_id)
                /\ outputs' = DictSet(outputs, msg.session_id, <<>>)
                /\ default_id' = msg.session_id
                /\ rv' = msg.session_id
                /\ pc' = retpc
                /\ UNCHANGED <<exc, ru>>
           ELSE /\ Raise("AssertionError")
                /\ UNCHANGED <<registry, rv>>
    /\ stdout' = IF Head(wire).type = "hello"
                 THEN Append(stdout, "[OK] Connected") ELSE stdout
    /\ UNCHANGED <<prog, wdeadline, protoVars, retpc, arg, conn, nOut, clock, mainVars, endVars, sent, drv>>

\* self.recv() times out (asyncio.TimeoutError) or the transport is gone
connect_hello_fails ==
    /\ pc = "c_hello" /\ wire = <<>>
    /\ \/ conn = "up" /\ now' = deadline /\ Raise("TimeoutError")
       \/ conn = "lost" /\ now' = now /\ Raise("ConnectionClosed")
    /\ UNCHANGED <<prog, wdeadline, stdout, protoVars, callVars, envVars, deadline, registry, mainVars, endVars, sent, drv>>

connect == connect_open \/ connect_hello \/ connect_hello_fails

----------------------------------------------------------------------------
(* TerminalTester.close and the ways main() ends *)

\* if self.ws: await self.ws.close()
TesterClose ==
    /\ ws' = IF ws = "none" THEN "none" ELSE "closed"
    /\ closeCalls' = IF ws = "none" THEN closeCalls ELSE closeCalls + 1

\* await tester.close(); return code
ExitWith(code) ==
    /\ TesterClose
    /\ exitcode' = code
    /\ pc' = "done"

\* Start recv_until(msg_type, term_id, timeout) and suspend at label
Await(label, msg_type, term_id, timeout) ==
    /\ now' = 0
    /\ deadline' = Deadline(0, timeout)
    /\ ru' = RuCall(msg_type, term_id, timeout, 0)
    /\ pc' = label

----------------------------------------------------------------------------
(* TerminalTester.setup_workspace, lines 75-98, as called at line 160 *)

setup_workspace_call ==
    /\ pc = "m_setup"
    /\ IF CanSend
       THEN /\ sent' = sent \cup {"list_projects"}
            /\ Await("sw_projects", "projects", NoId, TIMEOUT)
            /\ UNCHANGED exc
       ELSE /\ Raise("ConnectionClosed")
            /\ UNCHANGED <<sent, clock>>
    /\ UNCHANGED <<prog, wdeadline, stdout, protoVars, callVars, envVars, registry, mainVars, endVars, drv>>

setup_workspace_projects ==
    /\ pc = "sw_projects" /\ ru.st = "ret"
    /\ LET msg == ru.result IN
       IF msg = None \/ msg.items = <<>>
       THEN \* [SKIP]: return False; main closes and returns 1
            /\ ExitWith(1)
            /\ ru' = RuIdle
            /\ UNCHANGED <<project, sent, clock, exc>>
       ELSE /\ project' = msg.items[1]
            /\ IF CanSend
               THEN /\ sent' = sent \cup {"list_workspaces"}
                    /\ Await("sw_workspaces", "workspaces", NoId, TIMEOUT)
                    /\ UNCHANGED exc
               ELSE /\ Raise("ConnectionClosed")
                    /\ UNCHANGED <<sent, clock>>
            /\ UNCHANGED endVars
    /\ stdout' = IF ru.result = None \/ ru.result.items = <<>>
                 THEN Append(Append(stdout, "[SKIP] No projects found"), "[SKIP] Cannot run full test")
                 ELSE Append(stdout, "[OK] Using project")
    /\ UNCHANGED <<prog, wdeadline, protoVars, callVars, envVars, registry, workspace, term1, term2, i,
                   isolation_ok, drv>>

\* ... return True, then main line 167: send select_workspace, recv_until
setup_workspace_workspaces ==
    /\ pc = "sw_workspaces" /\ ru.st = "ret"
    /\ LET msg == ru.result IN
       IF msg = None \/ msg.items = <<>>
       THEN /\ ExitWith(1)
            /\ ru' = RuIdle
            /\ UNCHANGED <<workspace, sent, clock, exc>>
       ELSE /\ workspace' = msg.items[1]
            /\ IF CanSend
               THEN /\ sent' = sent \cup {"select_workspace"}
                    /\ Await("m_select", "selected_workspace", NoId, TIMEOUT)
                    /\ UNCHANGED exc
               ELSE /\ Raise("ConnectionClosed")
                    /\ UNCHANGED <<sent, clock>>
            /\ UNCHANGED endVars
    /\ stdout' = IF ru.result = None \/ ru.result.items = <<>>
                 THEN Append(Append(stdout, "[SKIP] No workspaces found"), "[SKIP] Cannot run full test")
                 ELSE Append(stdout, "[OK] Using workspace")
    /\ UNCHANGED <<prog, wdeadline, protoVars, callVars, envVars, registry, project, term1, term2, i,
                   isolation_ok, drv>>

setup_workspace ==
    setup_workspace_call \/ setup_workspace_projects \/ setup_workspace_workspaces

----------------------------------------------------------------------------
(* TerminalTester.create_terminal, lines 100-113 *)

create_terminal_call ==
    /\ pc = "create_call"
    /\ IF CanSend
       THEN /\ sent' = sent \cup {"term_create"}
            /\ Await("create_wait", "term_created", NoId, TIMEOUT)
            /\ UNCHANGED exc
       ELSE /\ Raise("ConnectionClosed")
            /\ UNCHANGED <<sent, clock>>
    /\ UNCHANGED <<prog, wdeadline, stdout, protoVars, callVars, envVars, registry, mainVars, endVars, drv>>

create_terminal_return ==
    /\ pc = "create_wait" /\ ru.st = "ret"
    /\ LET msg == ru.result IN
       IF msg # None
       THEN /\ term_ids' = Append(term_ids, msg.term_id)
            /\ outputs' = DictSet(outputs, msg.term_id, <<>>)
            /\ rv' = msg.term_id
       ELSE /\ rv' = NoId
            /\ UNCHANGED <<term_ids, outputs>>
    /\ pc' = retpc
    /\ ru' = RuIdle
    /\ stdout' = IF ru.result # None THEN Append(stdout, "[OK] Created terminal") ELSE stdout
    /\ UNCHANGED <<prog, wdeadline, protoVars, retpc, arg, envVars, clock, default_id, mainVars, exc, endVars,
                   sent, drv>>

create_terminal == create_terminal_call \/ create_terminal_return

----------------------------------------------------------------------------
(* TerminalTester.close_terminal, lines 133-141 *)

close_terminal_call ==
    /\ pc = "close_call"
    /\ IF CanSend
       THEN /\ sent' = sent \cup {"term_close"}
            /\ Await("close_wait", "term_closed", NoId, TIMEOUT)
            /\ UNCHANGED exc
       ELSE /\ Raise("ConnectionClosed")
            /\ UNCHANGED <<sent, clock>>
    /\ UNCHANGED <<prog, wdeadline, stdout, protoVars, callVars, envVars, registry, mainVars, endVars, drv>>

\* if msg and msg.get("term_id") == term_id
CloseAcked(msg, term_id) == msg # None /\ msg.term_id = term_id

close_terminal_return ==
    /\ pc = "close_wait" /\ ru.st = "ret"
    /\ IF CloseAcked(ru.result, arg)
       THEN IF arg \in Range(term_ids)
            THEN /\ term_ids' = RemoveFirst(term_ids, arg)
                 /\ closed' = closed \cup {arg}
                 /\ rv' = "True"
                 /\ pc' = retpc
                 /\ ru' = RuIdle
                 /\ UNCHANGED exc
            ELSE \* list.remove(x): x not in list
                 /\ Raise("ValueError")
                 /\ UNCHANGED <<term_ids, rv, closed>>
       ELSE /\ rv' = "False"
            /\ pc' = retpc
            /\ ru' = RuIdle
            /\ UNCHANGED <<term_ids, exc, closed>>
    /\ stdout' = IF CloseAcked(ru.result, arg) /\ arg \in Range(term_ids)
                 THEN Append(stdout, "[OK] Closed terminal") ELSE stdout
    /\ UNCHANGED <<prog, wdeadline, protoVars, retpc, arg, envVars, clock, outputs, default_id, mainVars,
                   endVars, sent, nOps>>

close_terminal == close_terminal_call \/ close_terminal_return

----------------------------------------------------------------------------
(* main() of term-multi-smoke.py, lines 148-264 *)

\* line 157 returned: default_term = await tester.connect(); line 160
main_connected ==
    /\ pc = "m_connected"
    /\ pc' = "m_setup"
    /\ UNCHANGED <<prog, wdeadline, stdout, protoVars, callVars, envVars, clock, ru, registry, mainVars, exc, endVars,
                   sent, drv>>

\* line 175: tester.term_ids = [msg["session_id"]]
ReplaceTermIds(tids, sid) == <<sid>>

\* Mutant: the new session is added and the old one kept
ReplaceOutputs_Keep(outs, sid) == DictSet(outs, sid, <<>>)

\* line 176: tester.outputs = {msg["session_id"]: ""}
ReplaceOutputs(outs, sid) == DictSet(EmptyDict, sid, <<>>)

StepResult(ok) == IF ok THEN "pass" ELSE "fail"

\* lines 172-182: the selected_workspace wait returned
main_select ==
    /\ pc = "m_select" /\ ru.st = "ret"
    /\ LET msg == ru.result IN
       IF msg # None
       THEN /\ term_ids' = ReplaceTermIds(term_ids, msg.session_id)
            /\ outputs' = ReplaceOutputs(outputs, msg.session_id)
            /\ default_id' = msg.session_id
       ELSE UNCHANGED registry
    /\ steps' = Append(steps, <<"select_workspace", StepResult(ru.result # None)>>)
    /\ term1' = term_ids'[1]
    /\ ru' = RuIdle
    /\ pc' = "create_call"
    /\ retpc' = "m_created"
    /\ stdout' = IF ru.result # None THEN Append(stdout, "[OK] Selected workspace") ELSE stdout
    /\ UNCHANGED <<prog, wdeadline, protoRest, rv, arg, envVars, clock, project, workspace, term2, i,
                   isolation_ok, exc, endVars, sent, drv>>

\* lines 182-189: term2 = await tester.create_terminal(); sleep(1)
main_created ==
    /\ pc = "m_created"
    /\ term2' = rv
    /\ IF rv = NoId
       THEN ExitWith(1)
       ELSE pc' = "m_clear1" /\ UNCHANGED endVars
    /\ stdout' = IF rv = NoId THEN Append(stdout, "[FAIL] Failed to create second terminal") ELSE stdout
    /\ UNCHANGED <<prog, wdeadline, protoVars, callVars, envVars, clock, ru, registry, project, workspace, term1,
                   i, isolation_ok, exc, sent, drv>>

\* lines 191-198: clear both buffers, send_input(term1), sleep(0.5)
main_clear1 ==
    /\ pc = "m_clear1"
    /\ outputs' = DictSet(DictSet(outputs, term1, <<>>), term2, <<>>)
    /\ IF CanSend
       THEN /\ sent' = sent \cup {"input"}
            /\ pc' = "m_inputB"
            /\ UNCHANGED <<exc, ru>>
       ELSE /\ Raise("ConnectionClosed")
            /\ UNCHANGED sent
    /\ UNCHANGED <<prog, wdeadline, stdout, protoVars, callVars, envVars, clock, term_ids, default_id, mainVars, endVars,
                   drv>>

\* lines 200-203: send_input(term2), sleep(0.5)
main_inputB ==
    /\ pc = "m_inputB"
    /\ IF CanSend
       THEN /\ pc' = "m_drain1" /\ i' = 0
            /\ UNCHANGED <<exc, ru>>
       ELSE /\ Raise("ConnectionClosed")
            /\ UNCHANGED i
    /\ UNCHANGED <<prog, wdeadline, stdout, protoVars, callVars, envVars, clock, registry, project, workspace, term1,
                   term2, isolation_ok, endVars, sent, drv>>

\* lines 206-207 and 240-241: for _ in range(20): await recv_until("output", timeout=0.2)
DrainLoop(loop, wait, after) ==
    \/ /\ pc = loop /\ i < DRAIN_ITERS
       /\ Await(wait, "output", NoId, DRAIN_TIMEOUT)
       /\ UNCHANGED i
    \/ /\ pc = loop /\ i >= DRAIN_ITERS
       /\ pc' = after
       /\ UNCHANGED <<i, ru, clock>>
    \/ /\ pc = wait /\ ru.st = "ret"
       /\ i' = i + 1
       /\ ru' = RuIdle
       /\ pc' = loop
       /\ UNCHANGED clock

main_drain1 ==
    /\ DrainLoop("m_drain1", "m_drain1_w", "m_verify")
    /\ UNCHANGED <<prog, wdeadline, stdout, protoVars, callVars, envVars, registry, project, workspace, term1, term2,
                   isolation_ok, exc, endVars, sent, drv>>

\* Mutant: term2 is searched for the wrong marker
IsolationOk_WrongMarker(out1, out2) ==
    LET term1_has_A == Contains(out1, MARKER_A)
        term1_has_B == Contains(out1, MARKER_B)
        term2_has_A == Contains(out2, MARKER_A)
        term2_has_B == Contains(out2, MARKER_B)
    IN  term1_has_A /\ ~term1_has_B /\ term2_has_A /\ ~term2_has_B

\* lines 212-222
IsolationOk(out1, out2) ==
    LET term1_has_A == Contains(out1, MARKER_A)
        term1_has_B == Contains(out1, MARKER_B)
        term2_has_A == Contains(out2, MARKER_A)
        term2_has_B == Contains(out2, MARKER_B)
    IN  term1_has_A /\ ~term1_has_B /\ term2_has_B /\ ~term2_has_A

BoolStr(b) == IF b THEN "True" ELSE "False"

\* lines 209-229
main_verify ==
    /\ pc = "m_verify"
    /\ LET ok == IsolationOk(outputs[term1], outputs[term2]) IN
        /\ isolation_ok' = BoolStr(ok)
        /\ IF ~ok
           THEN ExitWith(1)
           ELSE pc' = "m_clear2" /\ UNCHANGED endVars
    /\ stdout' = IF IsolationOk(outputs[term1], outputs[term2])
                 THEN Append(stdout, "[OK] Output isolation verified")
                 ELSE Append(stdout, "[FAIL] Output isolation failed")
    /\ UNCHANGED <<prog, wdeadline, protoVars, callVars, envVars, clock, ru, registry, project, workspace, term1,
                   term2, i, exc, sent, drv>>

\* lines 231-238: clear both buffers, send pwd to both, sleep(0.5)
main_clear2 ==
    /\ pc = "m_clear2"
    /\ outputs' = DictSet(DictSet(outputs, term1, <<>>), term2, <<>>)
    /\ IF CanSend
       THEN /\ pc' = "m_drain2" /\ i' = 0
            /\ UNCHANGED <<exc, ru>>
       ELSE /\ Raise("ConnectionClosed")
            /\ UNCHANGED i
    /\ UNCHANGED <<prog, wdeadline, stdout, protoVars, callVars, envVars, clock, term_ids, default_id, project, workspace,
                   term1, term2, isolation_ok, endVars, sent, drv>>

main_drain2 ==
    /\ DrainLoop("m_drain2", "m_drain2_w", "m_close2")
    /\ UNCHANGED <<prog, wdeadline, stdout, protoVars, callVars, envVars, registry, project, workspace, term1, term2,
                   isolation_ok, exc, endVars, sent, drv>>

\* line 249: await tester.close_terminal(term2)
main_close2 ==
    /\ pc = "m_close2"
    /\ arg' = term2 /\ retpc' = "m_close1" /\ pc' = "close_call"
    /\ UNCHANGED <<prog, wdeadline, stdout, protoVars, rv, envVars, clock, ru, registry, mainVars, exc, endVars, sent, drv>>

\* line 250: await tester.close_terminal(term1)
main_close1 ==
    /\ pc = "m_close1"
    /\ steps' = Append(steps, <<"close_terminal", StepResult(rv = "True")>>)
    /\ arg' = term1 /\ retpc' = "m_passed" /\ pc' = "close_call"
    /\ UNCHANGED <<prog, wdeadline, stdout, protoRest, rv, envVars, clock, ru, registry, mainVars, exc, endVars, sent, drv>>

\* lines 252-257: MULTI TERM SMOKE PASSED; close; return 0
main_passed ==
    /\ pc = "m_passed"
    /\ steps' = Append(steps, <<"close_terminal", StepResult(rv = "True")>>)
    /\ ExitWith(0)
    /\ stdout' = Append(stdout, "MULTI TERM SMOKE PASSED")
    /\ UNCHANGED <<prog, wdeadline, protoRest, callVars, envVars, clock, ru, registry, mainVars, exc, sent, drv>>

\* lines 259-264: except Exception: close; return 1
main_except ==
    /\ pc = "m_except"
    /\ ExitWith(1)
    /\ stdout' = Append(stdout, "[FAIL] Error")
    /\ UNCHANGED <<prog, wdeadline, protoVars, callVars, envVars, clock, ru, registry, mainVars, exc, sent, drv>>

main ==
    \/ main_connected \/ main_select \/ main_created \/ main_clear1 \/ main_inputB
    \/ main_drain1 \/ main_verify \/ main_clear2 \/ main_drain2
    \/ main_close2 \/ main_close1 \/ main_passed \/ main_except

----------------------------------------------------------------------------
(* TerminalTester driven method by method: after connect(), any of         *)
(* create_terminal(), close_terminal(t) and recv_until(kind, t, timeout).  *)

ApiKinds == {"output", "term_closed"}
ApiFilters == {NoId, "s0", "s1"}
ApiTimeouts == {-1, 0, DRAIN_TIMEOUT}
ApiWaitTimeouts == {WAIT_INNER + 1, WAIT_TIMEOUT}

api_call ==
    /\ pc = "api_idle" /\ nOps < MaxOps
    /\ nOps' = nOps + 1
    /\ \/ /\ pc' = "create_call" /\ retpc' = "api_idle"
          /\ UNCHANGED <<arg, ru, clock, wdeadline>>
       \/ \E t \in IDs :
          /\ pc' = "close_call" /\ retpc' = "api_idle" /\ arg' = t
          /\ UNCHANGED <<ru, clock, wdeadline>>
       \/ \E k \in ApiKinds, t \in ApiFilters, tmo \in ApiTimeouts :
          /\ Await("api_recv", k, t, tmo)
          /\ retpc' = "api_idle" /\ arg' = t
          /\ UNCHANGED wdeadline
       \/ \* wait_for_output(t, "MARKER_A", tmo), line 126
          \E t \in ApiFilters \ {NoId}, tmo \in ApiWaitTimeouts :
          /\ now' = 0 /\ wdeadline' = Deadline(0, tmo)
          /\ pc' = "wfo_loop" /\ retpc' = "api_idle" /\ arg' = t
          /\ UNCHANGED <<ru, deadline>>
    /\ UNCHANGED <<prog, stdout, protoVars, rv, envVars, registry, mainVars, exc, endVars, sent, closed>>

\* recv_until returned to the driver
api_recv_return ==
    /\ pc = "api_recv" /\ ru.st = "ret"
    /\ rv' = ru.result.type
    /\ ru' = RuIdle
    /\ pc' = retpc
    /\ UNCHANGED <<prog, wdeadline, stdout, protoVars, retpc, arg, envVars, clock, registry, mainVars, exc, endVars,
                   sent, drv>>

api == api_call \/ api_recv_return

----------------------------------------------------------------------------
(* TerminalTester.wait_for_output, lines 124-131 *)

\* self.outputs.get(term_id, "")
OutputsGet(outs, tid) == IF tid \in DOMAIN outs THEN outs[tid] ELSE <<>>

\* lines 127-131: the loop test, the look into the buffer, the next inner wait
wait_for_output_loop ==
    /\ pc = "wfo_loop"
    /\ IF now < wdeadline
       THEN IF Contains(OutputsGet(outputs, arg), MARKER_A)
            THEN /\ rv' = "True" /\ pc' = retpc
                 /\ UNCHANGED <<ru, deadline>>
            ELSE /\ ru' = RuCall("output", arg, WAIT_INNER, now)
                 /\ deadline' = Deadline(now, WAIT_INNER)
                 /\ pc' = "wfo_wait"
                 /\ UNCHANGED rv
       ELSE /\ rv' = "False" /\ pc' = retpc
            /\ UNCHANGED <<ru, deadline>>
    /\ UNCHANGED <<prog, wdeadline, stdout, protoVars, retpc, arg, envVars, now, registry, mainVars,
                   exc, endVars, sent, drv>>

\* line 130 returned
wait_for_output_pulled ==
    /\ pc = "wfo_wait" /\ ru.st = "ret"
    /\ ru' = RuIdle
    /\ pc' = "wfo_loop"
    /\ UNCHANGED <<prog, wdeadline, stdout, protoVars, callVars, envVars, clock, registry, mainVars,
                   exc, endVars, sent, drv>>

wait_for_output == wait_for_output_loop \/ wait_for_output_pulled

----------------------------------------------------------------------------
(* ProtocolTester of verify_protocol.py *)

\* recv_message, lines 58-67: one ws.recv() under asyncio.wait_for.  It yields
\* msg at time t: the frame at hand, or None after the whole timeout, or None at
\* once when ws.recv() raises (logged as "Receive error").
RecvMessage(msg, t) ==
    \/ /\ wire # <<>> /\ msg = Head(wire) /\ wire' = Tail(wire) /\ t = now
    \/ /\ wire = <<>> /\ conn = "up" /\ msg = None /\ wire' = wire /\ t = deadline
    \/ /\ wire = <<>> /\ conn = "lost" /\ msg = None /\ wire' = wire /\ t = now

MsgValues == ProtoFrames \cup {None}

\* Suspend in recv_message(timeout) at label
ProtoAwait(label, timeout) ==
    /\ now' = 0
    /\ deadline' = Deadline(0, timeout)
    /\ pc' = label

TestNames == <<"Hello", "Ping/Pong", "Resize", "Input/Output", "List Projects">>

\* lines 282-290: count the outcome of test_fn ("pass", "fail", or "exc" for a
\* raised exception) and go on with the next test
Tally(outcome) ==
    /\ passed' = IF outcome = "pass" THEN passed + 1 ELSE passed
    /\ failed' = IF outcome = "pass" THEN failed ELSE failed + 1
    /\ steps' = Append(steps, <<TestNames[ti + 1], outcome>>)
    /\ ti' = ti + 1
    /\ pc' = "p_next"

\* An exception nothing catches leaves run_all_tests and main: exit status 1
ProtoCrash(e) ==
    /\ exc' = e
    /\ pc' = "crashed"
    /\ exitcode' = 1

\* lines 265-266: connect(), lines 48-56
proto_connect ==
    /\ pc = "p_connect"
    /\ \/ /\ ws' = "open" /\ conn' = "up" /\ pc' = "p_next"
          /\ UNCHANGED exitcode
       \/ \* Connection failed: run_all_tests returns False, sys.exit(1)
          /\ exitcode' = 1 /\ pc' = "done"
          /\ UNCHANGED <<ws, conn>>
    /\ UNCHANGED <<prog, wdeadline, stdout, smokeVars, protoVars, wire, nOut, clock, i, exc, closeCalls, sent>>

\* for name, test_fn in tests: try: await test_fn() ... up to its first receive
proto_start_test ==
    /\ pc = "p_next" /\ ti < Len(TestNames)
    /\ \/ /\ ti = 0
          /\ ProtoAwait("p_hello", RECV_TIMEOUT)
          /\ UNCHANGED <<passed, failed, steps, ti, sent, i>>
       \/ /\ ti = 1
          /\ IF CanSend
             THEN /\ sent' = sent \cup {"ping"}
                  /\ ProtoAwait("p_pong", PONG_TIMEOUT)
                  /\ UNCHANGED <<passed, failed, steps, ti, i>>
             ELSE Tally("exc") /\ UNCHANGED <<sent, clock, i>>
       \/ \* test_resize: send, sleep(0.1), return True
          /\ ti = 2
          /\ IF CanSend
             THEN sent' = sent \cup {"resize"} /\ Tally("pass")
             ELSE sent' = sent /\ Tally("exc")
          /\ UNCHANGED <<clock, i>>
       \/ /\ ti = 3
          /\ IF CanSend
             THEN /\ sent' = sent \cup {"input"}
                  /\ i' = 0
                  /\ ProtoAwait("p_io", IO_TIMEOUT)
                  /\ UNCHANGED <<passed, failed, steps, ti>>
             ELSE Tally("exc") /\ UNCHANGED <<sent, clock, i>>
       \/ \* test_list_projects: skipped (return True) on a v0 server
          /\ ti = 4
          /\ IF protocol_version < 1
             THEN Tally("pass") /\ UNCHANGED <<sent, clock, i>>
             ELSE IF CanSend
                  THEN /\ sent' = sent \cup {"list_projects"}
                       /\ ProtoAwait("p_projects", RECV_TIMEOUT)
                       /\ UNCHANGED <<passed, failed, steps, ti, i>>
                  ELSE Tally("exc") /\ UNCHANGED <<sent, clock, i>>
    /\ UNCHANGED <<prog, wdeadline, stdout, smokeVars, protocol_version, session_id, cwd_isdir, output,
                   envVars, exc, endVars>>

\* test_hello, lines 73-97
test_hello ==
    /\ pc = "p_hello"
    /\ \E msg \in MsgValues, t \in {now, deadline} :
        /\ RecvMessage(msg, t)
        /\ now' = t
        /\ IF msg # None /\ msg.type = "hello"
           THEN /\ session_id' = msg.session_id
                /\ protocol_version' = msg.version
                /\ Tally("pass")
           ELSE /\ Tally("fail")
                /\ UNCHANGED <<session_id, protocol_version>>
    /\ UNCHANGED <<prog, wdeadline, stdout, smokeVars, cwd_isdir, output, conn, nOut, deadline, i, exc, endVars,
                   sent>>

\* if msg and msg.get("type") == "pong"
IsPong(msg) == msg # None /\ msg.type = "pong"

\* test_ping_pong, lines 99-111
test_ping_pong ==
    /\ pc = "p_pong"
    /\ \E msg \in MsgValues, t \in {now, deadline} :
        /\ RecvMessage(msg, t)
        /\ now' = t
        /\ IF IsPong(msg) THEN Tally("pass") ELSE Tally("fail")
    /\ UNCHANGED <<prog, wdeadline, stdout, smokeVars, protocol_version, session_id, cwd_isdir, output, conn,
                   nOut, deadline, i, exc, endVars, sent>>

\* test_input_output, lines 132-148
test_input_output ==
    /\ pc = "p_io"
    /\ \E msg \in MsgValues, t \in {now, deadline} :
        /\ RecvMessage(msg, t)
        /\ IF msg # None /\ msg.type = "output"
           THEN now' = t /\ Tally("pass") /\ UNCHANGED <<i, deadline>>
           ELSE IF i + 1 < IO_ITERS
                THEN /\ i' = i + 1
                     /\ ProtoAwait("p_io", IO_TIMEOUT)
                     /\ UNCHANGED <<passed, failed, steps, ti>>
                ELSE now' = t /\ Tally("fail") /\ UNCHANGED <<i, deadline>>
    /\ UNCHANGED <<prog, wdeadline, stdout, smokeVars, protocol_version, session_id, cwd_isdir, output, conn,
                   nOut, exc, endVars, sent>>

\* test_list_projects, lines 159-176
test_list_projects ==
    /\ pc = "p_projects"
    /\ \E msg \in MsgValues, t \in {now, deadline} :
        /\ RecvMessage(msg, t)
        /\ now' = t
        /\ IF msg # None /\ msg.type = "projects" THEN Tally("pass") ELSE Tally("fail")
    /\ UNCHANGED <<prog, wdeadline, stdout, smokeVars, protocol_version, session_id, cwd_isdir, output, conn,
                   nOut, deadline, i, exc, endVars, sent>>

\* lines 292-305: if test_cwd and self.protocol_version >= 1 (test_cwd is never empty, line 324)
SpawnGate == protocol_version >= 1

\* after the loop: the spawn_terminal test, up to its first receive
proto_spawn_gate ==
    /\ pc = "p_next" /\ ti = Len(TestNames)
    /\ IF SpawnGate /\ cwd_isdir
       THEN IF CanSend
            THEN /\ sent' = sent \cup {"spawn_terminal"}
                 /\ i' = 0
                 /\ ProtoAwait("p_spawn", SPAWN_TIMEOUT)
                 /\ UNCHANGED <<exc, exitcode>>
            ELSE /\ ProtoCrash("ConnectionClosed")
                 /\ UNCHANGED <<sent, i, clock>>
       ELSE /\ pc' = "p_close"
            /\ UNCHANGED <<sent, i, clock, exc, exitcode>>
    /\ UNCHANGED <<prog, wdeadline, stdout, smokeVars, protoVars, envVars, closeCalls, ws>>

\* run_all_tests lines 295-303 with the outcome of test_spawn_terminal: on success
\* go on into test_cwd_verification, up to its first receive
SpawnDone(ok) ==
    IF ok
    THEN /\ passed' = passed + 1
         /\ steps' = Append(steps, <<"spawn_terminal", "pass">>)
         /\ failed' = failed
         /\ IF CanSend
            THEN /\ sent' = sent \cup {"input"}
                 /\ i' = 0
                 /\ output' = <<>>
                 /\ ProtoAwait("p_cwd", IO_TIMEOUT)
                 /\ UNCHANGED <<exc, exitcode>>
            ELSE /\ ProtoCrash("ConnectionClosed")
                 /\ UNCHANGED <<sent, i, output, clock>>
    ELSE /\ failed' = failed + 1
         /\ steps' = Append(steps, <<"spawn_terminal", "fail">>)
         /\ pc' = "p_close"
         /\ UNCHANGED <<passed, sent, i, output, clock, exc, exitcode>>

\* test_spawn_terminal, lines 216-231
test_spawn_terminal ==
    /\ pc = "p_spawn"
    /\ \E msg \in MsgValues, t \in {now, deadline} :
        /\ RecvMessage(msg, t)
        /\ IF msg = None THEN SpawnDone(FALSE)
           ELSE IF msg.type = "terminal_spawned" THEN SpawnDone(TRUE)
           ELSE IF msg.type = "error" THEN SpawnDone(FALSE)
           ELSE IF i + 1 < SPAWN_ITERS
                THEN /\ i' = i + 1
                     /\ ProtoAwait("p_spawn", SPAWN_TIMEOUT)
                     /\ UNCHANGED <<passed, failed, steps, sent, output, exc, exitcode>>
                ELSE SpawnDone(FALSE)
    /\ UNCHANGED <<prog, wdeadline, stdout, smokeVars, protocol_version, session_id, ti, cwd_isdir, conn, nOut,
                   closeCalls, ws>>

\* lines 252-257 and 298-301
CwdDone(out) ==
    /\ IF Contains(out, EXPECTED_CWD)
       THEN /\ passed' = passed + 1 /\ failed' = failed
            /\ steps' = Append(steps, <<"cwd_verification", "pass">>)
       ELSE /\ failed' = failed + 1 /\ passed' = passed
            /\ steps' = Append(steps, <<"cwd_verification", "fail">>)
    /\ pc' = "p_close"

\* test_cwd_verification, lines 243-250
test_cwd_verification ==
    /\ pc = "p_cwd"
    /\ \E msg \in MsgValues, t \in {now, deadline} :
        /\ RecvMessage(msg, t)
        /\ LET out == IF msg # None /\ msg.type = "output"
                      THEN output \o DecodeData(msg) ELSE output
               brk == /\ msg # None /\ msg.type = "output"
                      /\ Contains(out, NEWLINE) /\ Contains(out, EXPECTED_CWD)
           IN /\ output' = out
              /\ IF brk \/ i + 1 >= IO_ITERS
                 THEN CwdDone(out) /\ now' = t /\ UNCHANGED <<i, deadline>>
                 ELSE /\ i' = i + 1
                      /\ ProtoAwait("p_cwd", IO_TIMEOUT)
                      /\ UNCHANGED <<passed, failed, steps>>
    /\ UNCHANGED <<prog, wdeadline, stdout, smokeVars, protocol_version, session_id, ti, cwd_isdir, conn, nOut,
                   exc, endVars, sent>>

\* lines 307-314 and 327-329: await self.ws.close(); return failed == 0; sys.exit
proto_close ==
    /\ pc = "p_close"
    /\ ws' = "closed" /\ closeCalls' = closeCalls + 1
    /\ exitcode' = IF failed = 0 THEN 0 ELSE 1
    /\ pc' = "done"
    /\ UNCHANGED <<prog, wdeadline, stdout, smokeVars, protoVars, envVars, clock, i, exc, sent>>

run_all_tests ==
    \/ proto_connect \/ proto_start_test
    \/ test_hello \/ test_ping_pong \/ test_input_output \/ test_list_projects
    \/ proto_spawn_gate \/ test_spawn_terminal \/ test_cwd_verification
    \/ proto_close

----------------------------------------------------------------------------
(* Specifications *)

InitCommon ==
    /\ rv = NoId /\ arg = NoId
    /\ ws = "none" /\ conn = "down" /\ wire = <<>> /\ nOut = 0
    /\ now = 0 /\ deadline = 0 /\ ru = RuIdle
    /\ term_ids = <<>> /\ outputs = EmptyDict /\ default_id = NoId
    /\ project = NoId /\ workspace = NoId /\ term1 = NoId /\ term2 = NoId
    /\ i = 0 /\ isolation_ok = "unset"
    /\ exc = "none" /\ exitcode = -1 /\ closeCalls = 0
    /\ sent = {} /\ nOps = 0 /\ closed = {}
    /\ passed = 0 /\ failed = 0 /\ protocol_version = 0 /\ session_id = NoId
    /\ ti = 0 /\ output = <<>> /\ steps = <<>> /\ stdout = <<>>
    /\ wdeadline = 0

\* python3 term-multi-smoke.py
InitMain ==
    prog = "smoke" /\ pc = "c_open" /\ retpc = "m_connected" /\ cwd_isdir = TRUE /\ InitCommon

\* tester = TerminalTester(); await tester.connect(); then calls in any order
InitApi ==
    prog = "api" /\ pc = "c_open" /\ retpc = "api_idle" /\ cwd_isdir = TRUE /\ InitCommon

Environment == ServerSend \/ ConnLost \/ Elapse

TerminalTester == connect \/ recv_until \/ setup_workspace \/ create_terminal \/ close_terminal

NextMain == Environment \/ TerminalTester \/ main

SpecMain == InitMain /\ [][NextMain]_vars

NextApi ==
    \/ Environment \/ connect \/ recv_until \/ create_terminal \/ close_terminal
    \/ wait_for_output \/ api

SpecApi == InitApi /\ [][NextApi]_vars

\* python3 verify_protocol.py [--cwd DIR]
InitProto ==
    /\ prog = "proto" /\ pc = "p_connect" /\ retpc = "none"
    /\ cwd_isdir \in BOOLEAN
    /\ InitCommon

NextProto == Environment \/ run_all_tests

SpecProto == InitProto /\ [][NextProto]_vars

\* The output the two shells have produced while main slept (lines 198, 203):
\* n frames, those of term1 and of term2 taking turns
PendingOutput(n, t1, t2) ==
    [k \in 1..n |-> IF k % 2 = 1
                    THEN Frame("output", NoId, t1, b64encode(MARKER_A), <<>>, 0)
                    ELSE Frame("output", NoId, t2, b64encode(MARKER_B), <<>>, 0)]

\* main at line 206, about to collect output: connected, workspace selected
\* (session "s1"), second terminal "s2" created, both buffers cleared, both
\* inputs sent, and some output already waiting on the socket
InitDrain ==
    /\ prog = "smoke" /\ pc = "m_drain1" /\ retpc = "m_created" /\ cwd_isdir = TRUE
    /\ rv = "s2" /\ arg = NoId
    /\ ws = "open" /\ conn = "up"
    /\ \E n \in 0..MaxPending : wire = PendingOutput(n, "s1", "s2") /\ nOut = n
    /\ now = 0 /\ deadline = Deadline(0, TIMEOUT) /\ ru = RuIdle
    /\ term_ids = <<"s1", "s2">> /\ default_id = "s1"
    /\ outputs = DictSet(DictSet(EmptyDict, "s1", <<>>), "s2", <<>>)
    /\ project = "p" /\ workspace = "w" /\ term1 = "s1" /\ term2 = "s2"
    /\ i = 0 /\ isolation_ok = "unset"
    /\ exc = "none" /\ exitcode = -1 /\ closeCalls = 0
    /\ sent = {"list_projects", "list_workspaces", "select_workspace", "term_create", "input"}
    /\ nOps = 0 /\ closed = {}
    /\ passed = 0 /\ failed = 0 /\ protocol_version = 0 /\ session_id = NoId
    /\ ti = 0 /\ output = <<>>
    /\ steps = <<<<"select_workspace", "pass">>>> /\ wdeadline = 0
    /\ stdout = <<"[OK] Connected", "[OK] Using project", "[OK] Using workspace",
                  "[OK] Selected workspace", "[OK] Created terminal">>

\* lines 206-229 of main: collect output, verify isolation
NextDrain == Environment \/ recv_until \/ main_drain1 \/ main_verify \/ main_except

SpecDrain == InitDrain /\ [][NextDrain]_vars

----------------------------------------------------------------------------
(* Properties *)

\* The step in which recv_until pulls an output frame off the socket
PullsOutput ==
    /\ ru.st = "run" /\ wire # <<>> /\ wire' = Tail(wire)
    /\ Head(wire).type = "output"

\* The session an output frame belongs to: the one it names, else the default
\* session (the one the latest hello / selected_workspace assigned)
SessionOf(f) == IF f.term_id # NoId THEN f.term_id ELSE default_id

C2_NoOutputLost ==
    [][PullsOutput =>
        LET f == Head(wire) IN
        /\ SessionOf(f) \in DOMAIN outputs'
        /\ \E pre \in {<<>>} \cup {outputs[s] : s \in DOMAIN outputs} :
            outputs'[SessionOf(f)] = pre \o DecodeData(f)]_vars

\* C3 (as claimed): a wait is resilient to unrelated frames.  Stated for the pong
\* wait of test_ping_pong (T = 2 s): when a pong frame arrives while less than T
\* has elapsed since the wait began, the wait has not ended in failure.
C3_PongWaitResilient ==
    ~ /\ prog = "proto" /\ pc = "p_next" /\ ti = 2
      /\ steps[2] = <<"Ping/Pong", "fail">>
      /\ now < PONG_TIMEOUT
      /\ wire # <<>> /\ Head(wire).type = "pong"

\* C4: Deadline monotonicity.  From its call to its return recv_until works
\* against the one deadline fixed at the call (call time + T): no frame moves
\* it, and the clock at the return is not past it.
C4_DeadlineMonotone ==
    ru.st \in {"run", "ret"} =>
        /\ deadline = ru.start + ru.timeout
        /\ now <= ru.start + ru.timeout

\* C4 witness: the wait for "projects" ran into its deadline after an output
\* frame, which does not match, had been pulled during it.
C4_Witness ==
    /\ prog = "smoke" /\ pc = "sw_projects"
    /\ ru.st = "ret" /\ ru.result = None
    /\ nOut > 0 /\ wire = <<>>
    /\ now = ru.start + TIMEOUT

ResetLabels == {"m_clear1", "m_clear2", "m_select", "create_wait"}

C6_IdentityReplacement ==
    [][(/\ pc = "m_select" /\ pc' # "m_select"
        /\ ru.result # None
        /\ ru.result.session_id # default_id) =>
        LET S0 == default_id
            S1 == ru.result.session_id
        IN  /\ term_ids'[1] = S1
            /\ S1 \in DOMAIN outputs'
            /\ S0 \notin Range(term_ids')
            /\ S0 \notin DOMAIN outputs']_vars

\* C6 witness: after hello assigned s0 the acknowledgment carried s1.
C6_Witness ==
    /\ prog = "smoke" /\ pc = "create_call"
    /\ steps = << <<"select_workspace", "pass">> >>
    /\ default_id = "s1" /\ term_ids = <<"s1">>

\* C7: The isolation verdict is a pure function of the two buffers.  The verify
\* step of main sets the verdict to true iff term1's buffer contains MARKER_A and
\* not MARKER_B and term2's buffer contains MARKER_B and not MARKER_A, and it
\* changes no buffer and no registry entry.
C7_IsolationVerdict ==
    [][(pc = "m_verify" /\ pc' # "m_verify") =>
        /\ isolation_ok' = "True" <=>
            /\ Contains(outputs[term1], MARKER_A) /\ ~Contains(outputs[term1], MARKER_B)
            /\ Contains(outputs[term2], MARKER_B) /\ ~Contains(outputs[term2], MARKER_A)
        /\ isolation_ok' \in {"True", "False"}
        /\ outputs' = outputs /\ term_ids' = term_ids]_vars

\* C7 witness: the verdict came out true.
C7_Witness == prog = "smoke" /\ isolation_ok = "True"

\* C8 (as claimed): closing an already closed session is not a crash.  When
\* close_terminal(S) returns for an S that was closed before and is not open,
\* it returns False, raises nothing and leaves the registry as it was.
C8_SecondCloseReported ==
    [][(/\ pc = "close_wait" /\ pc' # "close_wait" /\ ru.st = "ret"
        /\ arg \in closed /\ arg \notin Range(term_ids)) =>
        /\ exc' = "none" /\ rv' = "False"
        /\ term_ids' = term_ids /\ outputs' = outputs]_vars

\* Every step of main's scenario passed
AllStepsPassed ==
    /\ exc = "none"
    /\ project # NoId /\ workspace # NoId
    /\ term2 # NoId
    /\ isolation_ok = "True"
    /\ Len(steps) = 3
    /\ \A k \in 1..Len(steps) : steps[k][2] = "pass"

\* C9 (as claimed): Exit status.  A finished run of main has exit status 0 iff
\* every scenario step (handshake, workspace selection, session creation, each
\* close) and the isolation check passed.
C9_ExitStatus ==
    (prog = "smoke" /\ pc = "done") => (exitcode = 0 <=> AllStepsPassed)

\* C10 (as claimed): the connection is released on every exit path.  A run that
\* has ended after opening the connection has called its close.
C10_ConnectionReleased ==
    (pc \in {"done", "crashed"} /\ ws # "none") => closeCalls >= 1

\* C11: A zero or negative budget short-circuits.  When recv_until has no time
\* left (it was called with timeout <= 0, or its deadline has been reached), its
\* next step returns None, and that step reads nothing: every frame waiting on
\* the socket is still there.
C11_ZeroBudgetShortCircuits ==
    [][(ru.st = "run" /\ now >= deadline /\ ru' # ru) =>
        /\ ru'.st = "ret" /\ ru'.result = None
        /\ wire' = wire /\ outputs' = outputs /\ exc' = exc]_vars

\* C11 witness: recv_until was called with timeout <= 0 while a frame of the
\* kind it waits for was on the socket; it returned None and the frame is
\* still there.
C11_Witness ==
    /\ prog = "api" /\ pc = "api_recv"
    /\ ru.st = "ret" /\ ru.timeout <= 0 /\ ru.result = None
    /\ wire # <<>> /\ Matches(Head(wire), ru.msg_type, ru.term_id)

\* A close acknowledgment came back for another session than the one being
\* closed, or for a session that is not open
MismatchedCloseAck ==
    /\ pc = "close_wait" /\ ru.st = "ret" /\ ru.result # None
    /\ ru.result.term_id # arg \/ ru.result.term_id \notin Range(term_ids)

\* C12 (as claimed): a mismatched close acknowledgment is reported and is not
\* fatal.  The step in which close_terminal handles it prints a line for the
\* failed step, leaves term_ids and outputs as they were, raises nothing and
\* returns to its caller.
C12_MismatchedCloseReported ==
    [][(MismatchedCloseAck /\ pc' # pc) =>
        /\ stdout' # stdout
        /\ term_ids' = term_ids /\ outputs' = outputs
        /\ exc' = exc /\ pc' = retpc]_vars

\* C13 (as claimed): sessions are removed on a close acknowledgment matched by
\* id.  When close_terminal(T) returns after a term_closed acknowledgment for T,
\* T is neither in term_ids nor a key of outputs, every other session keeps its
\* entries; when it returns without such an acknowledgment the registry is as
\* it was.
C13_RemovedOnCloseAck ==
    [][(pc = "close_wait" /\ ru.st = "ret" /\ pc' = retpc) =>
        IF CloseAcked(ru.result, arg)
        THEN /\ arg \notin Range(term_ids') /\ arg \notin DOMAIN outputs'
             /\ Range(term_ids') = Range(term_ids) \ {arg}
             /\ DOMAIN outputs' = DOMAIN outputs \ {arg}
        ELSE term_ids' = term_ids /\ outputs' = outputs]_vars

\* The run printed that it skips the workspace steps
SkipPrinted == \E k \in 1..Len(stdout) : stdout[k] = "[SKIP] Cannot run full test"

\* C14 (as claimed): version gating is decided from the handshake, never from
\* timeouts.  The smoke test skips its workspace steps only if the hello frame
\* it received advertised no workspace support (version < 1); every hello the
\* server sends here advertises version 1, so no run skips.
C14_SkipOnlyFromHandshake ==
    (prog = "smoke" /\ SkipPrinted) =>
        \E f \in SmokeFrames : f.type = "hello" /\ f.version < 1

\* The selected_workspace acknowledgment was received by main's wait for it
SelectAcked == \E k \in 1..Len(steps) : steps[k] = <<"select_workspace", "pass">>

\* C15 (as claimed): lifecycle order.  In a run of main a term_create request or
\* an input has been sent only if the hello frame was received before and, a
\* select_workspace request having been sent, its selected_workspace
\* acknowledgment was received before.
C15_LifecycleOrder ==
    (prog = "smoke" /\ ("term_create" \in sent \/ "input" \in sent)) =>
        /\ default_id # NoId
        /\ "select_workspace" \in sent => SelectAcked

\* The frame satisfies a wait for kind under the optional session filter
Satisfies(f, kind, filter) ==
    /\ f.type = kind
    /\ filter # NoId => f.term_id = filter

C17_DefaultWellDefined ==
    [][(PullsOutput /\ Head(wire).term_id = NoId) =>
        /\ exc' = exc
        /\ default_id \in DOMAIN outputs'
        /\ outputs'[default_id] = outputs[default_id] \o DecodeData(Head(wire))]_vars

\* C18 (as claimed): the drain before the isolation check is bounded and
\* complete.  When it ends it has made at most DRAIN_ITERS pulls, each within
\* DRAIN_TIMEOUT, and no output frame is left on the socket: frames reach the
\* client only while it is suspended in a receive, which consumes them, so a
\* frame still there is one that was pending when the drain started.
C18_DrainBoundedAndComplete ==
    (prog = "smoke" /\ pc = "m_verify") =>
        /\ i <= DRAIN_ITERS /\ now <= DRAIN_TIMEOUT
        /\ \A k \in 1..Len(wire) : wire[k].type # "output"

\* C19 (as claimed): filtering agrees with attribution.  Whenever recv_until,
\* waiting for output filtered on a session S, pulls an output frame, it
\* returns that frame if and only if the frame's bytes are appended to S's
\* buffer.
C19_FilterAgreesWithAttribution ==
    [][(PullsOutput /\ ru.msg_type = "output" /\ ru.term_id # NoId) =>
        LET f == Head(wire)
            S == ru.term_id
        IN  (ru'.st = "ret" /\ ru'.result = f)
            <=> /\ S \in DOMAIN outputs /\ S \in DOMAIN outputs'
                /\ outputs'[S] = outputs[S] \o DecodeData(f)]_vars

\* C20 (as claimed): wait_for_output returns True only when the session's
\* buffer contains the expected text, whenever it returns False the buffer does
\* not contain it at that moment, and it returns no later than its timeout plus
\* one inner wait after it was called.
C20_WaitForOutput ==
    [][(pc = "wfo_loop" /\ pc' # "wfo_loop" /\ pc' # "wfo_wait") =>
        /\ rv' \in {"True", "False"}
        /\ rv' = "True" <=> Contains(OutputsGet(outputs', arg), MARKER_A)
        /\ now' <= wdeadline + WAIT_INNER]_vars

\* Number of recorded steps that ended as passed
PassCount(s) == Cardinality({k \in 1..Len(s) : s[k][2] = "pass"})

\* C21 (as claimed): step accounting in run_all_tests.  When a run that had
\* connected has ended, the five base steps were run once each in the order of
\* the tests list, every step that was run is counted once, as passed or as
\* failed (a raised exception as failed), and the run reports success (exit
\* status 0) iff the failed count is 0.
C21_StepAccounting ==
    (prog = "proto" /\ pc \in {"done", "crashed"} /\ ws # "none") =>
        /\ Len(steps) >= Len(TestNames)
        /\ \A k \in 1..Len(TestNames) : steps[k][1] = TestNames[k]
        /\ passed = PassCount(steps)
        /\ passed + failed = Len(steps)
        /\ exitcode = 0 <=> failed = 0

====
